---- MODULE Spec2Model ----
(***************************************************************************)
(* Model of the pcie-audio driver's streaming core: the per-direction      *)
(* stream state (struct pcie_audio_stream), the register file, the         *)
(* descriptor ring built by setup_dma_descriptors, the PCM callbacks       *)
(* (open, close, hw_params, prepare, trigger) and the interrupt handler.   *)
(*                                                                         *)
(* A 32-bit register value is modelled as the set of its set bits          *)
(* (a subset of 0..31), so that shifts truncate and write-one-to-clear     *)
(* behave as on the hardware.                                              *)
(***************************************************************************)
EXTENDS Integers, Sequences, FiniteSets, TLC

----------------------------------------------------------------------------
(* Bounds of the model *)

\* coherent allocations the allocator can hand out before it fails for good
MaxAlloc == 2
\* hardware status events raised in one behaviour
MaxEvents == 1
\* polls of the clock-lock wait before it times out (1000 ms in the driver)
LockTimeout == 3
\* status events raised in one behaviour of the handler specification
MaxIrqEvents == 2
\* ticks of the clock in one behaviour of the handler specification
MaxTime == 1

----------------------------------------------------------------------------
(* Program constants (include/pcie-audio.h) *)

MAX_CHANNELS == 8
MAX_BUFFER_SIZE == 262144
MIN_PERIOD_SIZE == 1024
MAX_PERIOD_SIZE == 32768
MIN_PERIODS == 2
MAX_PERIODS == 32
DMA_DESC_COUNT == 32
MAX_DSD_RATE == 5644800
SizeofDesc == 24

DESC_FLAG_INT == {0}
DESC_FLAG_WRAP == {2}

----------------------------------------------------------------------------
(* 32-bit words as bit sets *)

BitRange == 0..31

AllOnes == BitRange

\* the bits of a number below 2^31
Bits(n) == {i \in 0..30 : (n \div (2^i)) % 2 = 1}

\* the number a word below 2^31 stands for
RECURSIVE WordVal(_)
WordVal(x) ==
    IF x = {} THEN 0
    ELSE LET b == CHOOSE c \in x : TRUE IN 2^b + WordVal(x \ {b})

\* x << n on a u32: bits shifted past bit 31 are lost
Shl(x, n) == {b + n : b \in {c \in x : c + n <= 31}}

\* x & 0xFF, x & 0xFF00, x & 0xFF0000
MaskLow(x) == x \cap (0..7)
MaskMid(x) == x \cap (8..15)
MaskHigh(x) == x \cap (16..23)

----------------------------------------------------------------------------
(* Directions, sessions, registers *)

Dirs == {"pb", "cap"}

NULL == "NULL"

\* snd_pcm_new(card, ..., 1, 1, ...): one substream object per direction
Substream(d) == IF d = "pb" THEN "substream_pb" ELSE "substream_cap"

EnableReg(d) == IF d = "pb" THEN "REG_CTRL_PB_ENABLE" ELSE "REG_CTRL_CAP_ENABLE"
IrqEnReg(d) == IF d = "pb" THEN "REG_DMA_PB_IRQ_EN" ELSE "REG_DMA_CAP_IRQ_EN"
StatusReg(d) == IF d = "pb" THEN "REG_STATUS_PB_UNDERRUN" ELSE "REG_STATUS_CAP_OVERRUN"
DescBaseReg(d) == IF d = "pb" THEN "REG_DMA_PB_DESC_BASE" ELSE "REG_DMA_CAP_DESC_BASE"
DescCountReg(d) == IF d = "pb" THEN "REG_DMA_PB_DESC_COUNT" ELSE "REG_DMA_CAP_DESC_COUNT"
SizeReg(d) == IF d = "pb" THEN "REG_DMA_PB_SIZE" ELSE "REG_DMA_CAP_SIZE"
ThresholdReg(d) == IF d = "pb" THEN "REG_DMA_PB_THRESHOLD" ELSE "REG_DMA_CAP_THRESHOLD"
CurrentReg(d) == IF d = "pb" THEN "REG_DMA_PB_CURRENT" ELSE "REG_DMA_CAP_CURRENT"
ActiveReg(d) == IF d = "pb" THEN "REG_STATUS_PB_DESC_ACTIVE" ELSE "REG_STATUS_CAP_DESC_ACTIVE"

StatusRegs == {"REG_STATUS_PB_UNDERRUN", "REG_STATUS_CAP_OVERRUN", "REG_STATUS_DMA_ERROR"}

RegNames ==
    {EnableReg(d) : d \in Dirs} \cup {IrqEnReg(d) : d \in Dirs} \cup
    {DescBaseReg(d) : d \in Dirs} \cup {DescCountReg(d) : d \in Dirs} \cup
    {SizeReg(d) : d \in Dirs} \cup {ThresholdReg(d) : d \in Dirs} \cup
    {CurrentReg(d) : d \in Dirs} \cup {ActiveReg(d) : d \in Dirs} \cup
    StatusRegs \cup
    {"REG_CTRL_FORMAT", "REG_CTRL_SAMPLE_FAMILY", "REG_CTRL_TARGET_RATE",
     "REG_DMA_CONFIG", "REG_CTRL_RESET", "REG_CTRL_SYNC_TIMEOUT",
     "REG_STATUS_LOCKED", "REG_PCIE_CONFIG"}

\* writel through pcie_audio_write; the status registers are write-one-to-clear
pcie_audio_write(r, reg, val) ==
    IF reg \in StatusRegs
    THEN [r EXCEPT ![reg] = @ \ val]
    ELSE [r EXCEPT ![reg] = val]

pcie_audio_read(r, reg) == r[reg]

----------------------------------------------------------------------------
VARIABLES
    stream,     \* chip->playback / chip->capture
    regs,       \* the register window
    stats,      \* chip->stats
    heap,       \* live coherent allocations (bus addresses)
    brk,        \* serial of the next allocation
    notif,      \* notifications sent to the framework, per direction
    now,        \* ktime_get()
    events,     \* status events raised by the hardware so far
    lock,       \* pb_lock / cap_lock owner
    ctl,        \* control-path threads: callback in progress and position
    irq         \* the interrupt handler's position and locals

vars == <<stream, regs, stats, heap, brk, notif, now, events, lock, ctl, irq>>

----------------------------------------------------------------------------
(* Descriptor ring: setup_dma_descriptors *)

\* runtime->dma_addr of the direction's preallocated DMA buffer
BufAddr(d) == IF d = "pb" THEN 1048576 ELSE 2097152

\* bus address of the n-th coherent allocation
DescAddr(n) == n * 4096

\* snd_pcm_format_physical_width of the formats the model draws
PhysicalWidth(format) ==
    CASE format = "S16_LE" -> 16
      [] format = "S24_3LE" -> 24
      [] format = "S24_LE" -> 32
      [] format = "DSD_U8" -> 8
      [] OTHER -> 32

\* the descriptor with the WRAP flag assigned rather than OR-ed in
InitDesc_wrap_overwrites(i, buf, period_bytes, desc_dma, count) ==
    [address |-> buf + i * period_bytes,
     length  |-> period_bytes,
     flags   |-> IF i = count - 1 THEN DESC_FLAG_WRAP
                 ELSE IF i % 2 = 1 THEN DESC_FLAG_INT ELSE {},
     next    |-> desc_dma + ((i + 1) % count) * SizeofDesc]

\* descriptor i (0-based) of a ring of count descriptors
InitDesc(i, buf, period_bytes, desc_dma, count) ==
    [address |-> buf + i * period_bytes,
     length  |-> period_bytes,
     flags   |-> (IF i % 2 = 1 THEN DESC_FLAG_INT ELSE {}) \cup
                 (IF i = count - 1 THEN DESC_FLAG_WRAP ELSE {}),
     next    |-> desc_dma + ((i + 1) % count) * SizeofDesc]

\* the initialised ring; descriptor i of the code is element i + 1
InitRing(buf, period_bytes, desc_dma, count) ==
    [k \in 1..count |-> InitDesc(k - 1, buf, period_bytes, desc_dma, count)]

\* number of descriptors the ring is allocated with
RingCount(cfg) == DMA_DESC_COUNT

\* dma_free_coherent of the stream's ring, when it has one
FreeRing(st, hp) == IF st.desc # <<>> THEN hp \ {st.desc_dma} ELSE hp

\* setup_dma_descriptors: the stream, the allocator state and the error code
\* after the call; allocOK is whether dma_alloc_coherent finds memory
setup_dma_descriptors(d, st, cfg, hp, bk, allocOK) ==
    LET hp1   == FreeRing(st, hp)
        count == RingCount(cfg)
        ok    == allocOK /\ bk <= MaxAlloc
        addr  == DescAddr(bk)
    IN  IF ~ok
        THEN [st  |-> [st EXCEPT !.desc_count = count, !.desc = <<>>],
              hp  |-> hp1, bk |-> bk, err |-> "ENOMEM"]
        ELSE [st  |-> [st EXCEPT !.desc_count = count,
                                 !.desc = InitRing(BufAddr(d), cfg.period_bytes, addr, count),
                                 !.desc_dma = addr,
                                 !.period_size = cfg.period_bytes,
                                 !.buffer_size = cfg.period_bytes * cfg.periods,
                                 !.periods = cfg.periods,
                                 !.current_desc = 0],
              hp  |-> hp1 \cup {addr}, bk |-> bk + 1, err |-> "OK"]

----------------------------------------------------------------------------
(* Device bring-up values: pcie_audio_init_hw *)

\* burst 512, scatter-gather, completion interrupt, master enable
InitHwDmaConfig == Bits(512 * 65536) \cup Bits(256) \cup Bits(2) \cup Bits(1)

\* the value the interrupt handler's fault path writes to REG_DMA_CONFIG
IrqDmaConfig == Bits(512 * 65536) \cup Bits(256) \cup Bits(2) \cup Bits(1)

InitHwFormat == Bits(24 * 256) \cup Bits(8 - 1)

InitHwSyncTimeout == Shl(Bits(48000), 16) \cup Bits(1)

\* the PCIe word of the clock-locked path; pci->current_state is PCI_D0 = 0
InitHwPcieConfig == Bits(512 * 65536) \cup Bits(256) \cup Bits(1)

\* the zeroed struct pcie_audio_stream of a fresh card
EmptyStream ==
    [substream |-> NULL, desc |-> <<>>, desc_dma |-> 0, desc_count |-> 0,
     current_desc |-> 0, period_size |-> 0, buffer_size |-> 0, periods |-> 0,
     interrupts |-> 0, errors |-> 0, last_interrupt |-> 0, latency |-> 0,
     hw_ptr |-> 0, prev_hw_ptr |-> 0, channels |-> 0, rate |-> 0, format |-> "NONE"]

\* the register window after probe: init_hw on the clock-locked path, then
\* pcie_audio_setup_irq
ProbedRegs ==
    [r \in RegNames |->
        CASE r = "REG_DMA_CONFIG" -> InitHwDmaConfig
          [] r = "REG_CTRL_FORMAT" -> InitHwFormat
          [] r \in {ThresholdReg(d) : d \in Dirs} -> Bits(1024)
          [] r = "REG_CTRL_SYNC_TIMEOUT" -> InitHwSyncTimeout
          [] r = "REG_STATUS_LOCKED" -> Bits(1)
          [] r = "REG_PCIE_CONFIG" -> InitHwPcieConfig
          [] OTHER -> {}]

\* the handler at rest; status, now, dir and seen are its locals, wq the
\* register writes it still has to issue, ret and nw the return value and the
\* number of register writes of its last complete run
IdleIrq ==
    [pc |-> "idle", status |-> {}, now |-> 0, dir |-> "pb", seen |-> NULL, wq |-> << >>,
     ret |-> "none", nw |-> 0]

\* a context with no callback in progress; ret is the return value of a
\* finished pcie_audio_init_hw, until the deadline of its lock wait
IdleCtl ==
    [pc |-> "idle", op |-> "none", dir |-> "pb", cmd |-> "none", wq |-> << >>,
     ret |-> "none", until |-> 0]

\* two control-path threads, and the interrupt context for the callbacks the
\* framework runs from inside a notification
Threads == {"t1", "t2"}

Ctx == Threads \cup {"irq"}

Init ==
    /\ stream = [d \in Dirs |-> EmptyStream]
    /\ regs = ProbedRegs
    /\ stats = [pb_underruns |-> 0, cap_overruns |-> 0, dma_errors |-> 0]
    /\ heap = {}
    /\ brk = 1
    /\ notif = [d \in Dirs |-> <<>>]
    /\ now = 0
    /\ events = 0
    /\ lock = [d \in Dirs |-> "free"]
    /\ ctl = [c \in Ctx |-> IdleCtl]
    /\ irq = IdleIrq

----------------------------------------------------------------------------
(* PCM callbacks as functions of the state they touch *)

\* frames_to_bytes(runtime, 1)
FrameBytes(st) == (st.channels * PhysicalWidth(st.format)) \div 8

\* pcie_audio_pcm_open: bind the substream, reset the monitoring fields
pcm_open_stream(st, d, t) ==
    [st EXCEPT !.substream = Substream(d),
               !.last_interrupt = t,
               !.interrupts = 0,
               !.errors = 0,
               !.latency = 0]

\* pcie_audio_pcm_open's return value
pcm_open_ret(st) == "OK"

\* pcie_audio_pcm_close: release the ring, unbind
pcm_close_stream(st) == [st EXCEPT !.desc = <<>>, !.substream = NULL]

\* the per-direction DMA register block written by pcie_audio_hw_params
hw_params_dma_regs(r, d, st) ==
    LET r1 == pcie_audio_write(r, DescBaseReg(d), Bits(st.desc_dma))
        r2 == pcie_audio_write(r1, DescCountReg(d), Bits(st.desc_count))
        r3 == pcie_audio_write(r2, SizeReg(d), Bits(st.period_size))
    IN  pcie_audio_write(r3, ThresholdReg(d), Bits(st.period_size \div 2))

\* format_ctrl of pcie_audio_hw_params
FormatCtrl(st) == Shl(Bits(PhysicalWidth(st.format)), 8) \cup Bits(st.channels - 1)

\* rate_ctrl with the multiplier itself, not minus one, in the field
RateCtrl_raw_multiplier(rate) ==
    LET family == IF rate % 44100 = 0 THEN {} ELSE {31}
        base   == IF family # {} THEN 48000 ELSE 44100
    IN  family \cup Shl(Bits(rate \div base), 8)

\* rate_ctrl of pcie_audio_hw_params; multi - 1 is computed on a u32
RateCtrl(rate) ==
    LET family == IF rate % 44100 = 0 THEN {} ELSE {31}
        base   == IF family # {} THEN 48000 ELSE 44100
        multi  == rate \div base
        dec    == IF multi = 0 THEN AllOnes ELSE Bits(multi - 1)
    IN  family \cup Shl(dec, 8)

\* the format and rate registers written by pcie_audio_hw_params
hw_params_ctrl_regs(r, st) ==
    LET r1 == pcie_audio_write(r, "REG_CTRL_FORMAT", FormatCtrl(st))
        r2 == pcie_audio_write(r1, "REG_CTRL_SAMPLE_FAMILY", RateCtrl(st.rate))
    IN  pcie_audio_write(r2, "REG_CTRL_TARGET_RATE", Bits(st.rate))

\* pcie_audio_prepare: the stream fields it resets
prepare_stream(st) == [st EXCEPT !.current_desc = 0, !.hw_ptr = 0, !.prev_hw_ptr = 0]

\* prepare leaving the direction's IRQ-enable register as it is
PrepareWrites_no_irq_clear(d) ==
    << <<EnableReg(d), {}>>, <<StatusReg(d), AllOnes>> >>

\* pcie_audio_prepare: its register writes, in program order
PrepareWrites(d) ==
    << <<EnableReg(d), {}>>, <<IrqEnReg(d), {}>>, <<StatusReg(d), AllOnes>> >>

\* pcie_audio_trigger: the register writes of a command, in program order
TriggerWrites(d, cmd) ==
    CASE cmd \in {"START", "RESUME"} ->
            << <<IrqEnReg(d), Bits(1)>>, <<EnableReg(d), Bits(1)>> >>
      [] cmd \in {"STOP", "SUSPEND"} ->
            << <<EnableReg(d), {}>>, <<IrqEnReg(d), {}>> >>
      [] OTHER -> << >>

TriggerRet(cmd) ==
    IF cmd \in {"START", "RESUME", "STOP", "SUSPEND"} THEN "OK" ELSE "EINVAL"

\* a sequence of register writes applied in order
RECURSIVE ApplyWrites(_, _)
ApplyWrites(r, ws) ==
    IF ws = << >> THEN r
    ELSE ApplyWrites(pcie_audio_write(r, ws[1][1], ws[1][2]), Tail(ws))

----------------------------------------------------------------------------
(* PCM callbacks, each run to completion *)

\* the callbacks other than open are handed a substream that has a runtime,
\* which exists from open to close
IsOpen(d) == stream[d].substream # NULL

\* open also zeroing the device-wide statistics
Open_resets_stats(d) ==
    /\ stream' = [stream EXCEPT ![d] = pcm_open_stream(@, d, now)]
    /\ stats' = [k \in DOMAIN stats |-> 0]
    /\ UNCHANGED <<regs, heap, brk, notif, now, events, lock, ctl, irq>>

Open(d) ==
    /\ stream' = [stream EXCEPT ![d] = pcm_open_stream(@, d, now)]
    /\ UNCHANGED <<regs, stats, heap, brk, notif, now, events, lock, ctl, irq>>

Close(d) ==
    /\ IsOpen(d)
    /\ heap' = FreeRing(stream[d], heap)
    /\ stream' = [stream EXCEPT ![d] = pcm_close_stream(@)]
    /\ UNCHANGED <<regs, stats, brk, notif, now, events, lock, ctl, irq>>

\* pcie_audio_hw_params; pagesOK and allocOK are the outcomes of
\* snd_pcm_lib_malloc_pages and dma_alloc_coherent
HwParams(d, cfg, pagesOK, allocOK) ==
    /\ IsOpen(d)
    /\ IF ~pagesOK
       THEN UNCHANGED <<stream, regs, heap, brk>>
       ELSE LET res == setup_dma_descriptors(d, stream[d], cfg, heap, brk, allocOK)
                st  == [res.st EXCEPT !.channels = cfg.channels,
                                      !.rate = cfg.rate,
                                      !.format = cfg.format]
            IN  /\ heap' = res.hp
                /\ brk' = res.bk
                /\ IF res.err # "OK"
                   THEN /\ stream' = [stream EXCEPT ![d] = res.st]
                        /\ UNCHANGED regs
                   ELSE /\ stream' = [stream EXCEPT ![d] = st]
                        /\ regs' = hw_params_ctrl_regs(hw_params_dma_regs(regs, d, st), st)
    /\ UNCHANGED <<stats, notif, now, events, lock, ctl, irq>>

Prepare(d) ==
    /\ IsOpen(d)
    /\ stream' = [stream EXCEPT ![d] = prepare_stream(@)]
    /\ regs' = ApplyWrites(regs, PrepareWrites(d))
    /\ UNCHANGED <<stats, heap, brk, notif, now, events, lock, ctl, irq>>

Trigger(d, cmd) ==
    /\ IsOpen(d)
    /\ lock[d] = "free"
    /\ regs' = ApplyWrites(regs, TriggerWrites(d, cmd))
    /\ stream' = IF cmd \in {"START", "RESUME"}
                 THEN [stream EXCEPT ![d].last_interrupt = now]
                 ELSE stream
    /\ UNCHANGED <<stats, heap, brk, notif, now, events, lock, ctl, irq>>

----------------------------------------------------------------------------
(* Interrupt handler: pcie_audio_interrupt *)

\* the combined status word
IrqStatus(r) ==
    pcie_audio_read(r, "REG_STATUS_PB_UNDERRUN") \cup
    Shl(pcie_audio_read(r, "REG_STATUS_CAP_OVERRUN"), 8) \cup
    Shl(pcie_audio_read(r, "REG_STATUS_DMA_ERROR"), 16)

\* status & 0xFF for playback, status & 0xFF00 for capture
DirMask(d, status) == IF d = "pb" THEN MaskLow(status) ELSE MaskMid(status)

\* status & (1 << 0) for playback, status & (1 << 8) for capture
XrunBit(d) == IF d = "pb" THEN 0 ELSE 8

XrunStat(d) == IF d = "pb" THEN "pb_underruns" ELSE "cap_overruns"

\* interrupts++, latency, last_interrupt
irq_stream_update(st, t) ==
    [st EXCEPT !.interrupts = @ + 1,
               !.latency = t - st.last_interrupt,
               !.last_interrupt = t]

\* snd_pcm_stop_xrun / snd_pcm_period_elapsed as seen by the driver: one
\* notification handed to the substream
Notify(nf, d, kind, to) == [nf EXCEPT ![d] = Append(@, [kind |-> kind, to |-> to])]

\* irq_body with the else of the x-run test lost: the period notification is
\* sent after the x-run as well
irq_body_fallthrough(d, status, S, t) ==
    LET st1 == [S.stream[d] EXCEPT !.interrupts = @ + 1,
                                   !.latency = t - S.stream[d].last_interrupt,
                                   !.last_interrupt = t]
        to  == S.stream[d].substream
    IN  IF XrunBit(d) \in status
        THEN [stream |-> [S.stream EXCEPT ![d] = [st1 EXCEPT !.errors = @ + 1]],
              stats  |-> [S.stats EXCEPT ![XrunStat(d)] = @ + 1],
              notif  |-> [S.notif EXCEPT ![d] =
                             @ \o << [kind |-> "xrun", to |-> to],
                                     [kind |-> "period", to |-> to] >>]]
        ELSE [stream |-> [S.stream EXCEPT ![d] = st1],
              stats  |-> S.stats,
              notif  |-> [S.notif EXCEPT ![d] = Append(@, [kind |-> "period", to |-> to])]]

\* irq_body with the period-elapsed call lost: the counters move, nothing is
\* sent
irq_body_drop_period(d, status, S, t) ==
    LET st1 == [S.stream[d] EXCEPT !.interrupts = @ + 1,
                                   !.latency = t - S.stream[d].last_interrupt,
                                   !.last_interrupt = t]
    IN  IF XrunBit(d) \in status
        THEN [stream |-> [S.stream EXCEPT ![d] = [st1 EXCEPT !.errors = @ + 1]],
              stats  |-> [S.stats EXCEPT ![XrunStat(d)] = @ + 1],
              notif  |-> [S.notif EXCEPT ![d] =
                             Append(@, [kind |-> "xrun", to |-> S.stream[d].substream])]]
        ELSE [stream |-> [S.stream EXCEPT ![d] = st1],
              stats  |-> S.stats,
              notif  |-> S.notif]

\* the body of the per-direction critical section once a substream was seen,
\* notifying substream to; S is the record of stream, stats and notif
irq_body_to(d, status, S, t, to) ==
    LET st1 == irq_stream_update(S.stream[d], t)
    IN  IF XrunBit(d) \in status
        THEN [stream |-> [S.stream EXCEPT ![d] = [st1 EXCEPT !.errors = @ + 1]],
              stats  |-> [S.stats EXCEPT ![XrunStat(d)] = @ + 1],
              notif  |-> Notify(S.notif, d, "xrun", to)]
        ELSE [stream |-> [S.stream EXCEPT ![d] = st1],
              stats  |-> S.stats,
              notif  |-> Notify(S.notif, d, "period", to)]

\* the body with the substream read from the stream
irq_body(d, status, S, t) == irq_body_to(d, status, S, t, S.stream[d].substream)

\* the per-direction part of the handler
irq_dir(d, status, S, t) ==
    IF DirMask(d, status) # {} /\ S.stream[d].substream # NULL
    THEN irq_body(d, status, S, t)
    ELSE S

\* the DMA fault path stopping only the playback direction
DmaFaultWrites_pb_only ==
    << <<"REG_CTRL_PB_ENABLE", {}>>,
       <<"REG_DMA_CONFIG", Bits(512 * 65536) \cup Bits(256) \cup Bits(2) \cup Bits(1)>> >>

\* the register writes of the DMA fault path, in program order
DmaFaultWrites ==
    << <<"REG_CTRL_PB_ENABLE", {}>>, <<"REG_CTRL_CAP_ENABLE", {}>>,
       <<"REG_DMA_CONFIG", IrqDmaConfig>> >>

\* the status clear without the capture-overrun register
ClearWrites_no_capture ==
    << <<"REG_STATUS_PB_UNDERRUN", AllOnes>>, <<"REG_STATUS_DMA_ERROR", AllOnes>> >>

\* the status clear at the end of the handler, in program order
ClearWrites ==
    << <<"REG_STATUS_PB_UNDERRUN", AllOnes>>, <<"REG_STATUS_CAP_OVERRUN", AllOnes>>,
       <<"REG_STATUS_DMA_ERROR", AllOnes>> >>

\* the handler's return value for a combined status word
irq_ret(status) == IF status = {} THEN "IRQ_NONE" ELSE "IRQ_HANDLED"

\* the handler with the early return on a zero status lost
IrqWrites_no_early_return(status) ==
    (IF MaskHigh(status) # {} THEN DmaFaultWrites ELSE << >>) \o ClearWrites

\* the register writes of one handler run, in program order
IrqWrites(status) ==
    IF status = {} THEN << >>
    ELSE (IF MaskHigh(status) # {} THEN DmaFaultWrites ELSE << >>) \o ClearWrites

\* what one handler run does to the streams, the statistics, the
\* notifications and the registers
InterruptEffects ==
    LET status == IrqStatus(regs)
        S0 == [stream |-> stream, stats |-> stats, notif |-> notif]
        S1 == irq_dir("pb", status, S0, now)
        S2 == irq_dir("cap", status, S1, now)
        fault == MaskHigh(status) # {}
    IN  /\ irq.pc = "idle"
        /\ IF status = {}
           THEN UNCHANGED <<stream, stats, notif>>
           ELSE /\ stream' = S2.stream
                /\ notif' = S2.notif
                /\ stats' = IF fault THEN [S2.stats EXCEPT !.dma_errors = @ + 1]
                                     ELSE S2.stats
        /\ regs' = ApplyWrites(regs, IrqWrites(status))

\* the handler run to completion
Interrupt ==
    /\ InterruptEffects
    /\ UNCHANGED <<heap, brk, now, events, lock, ctl, irq>>

\* the handler run to completion, its return value and the number of its
\* register writes kept
IrqCall ==
    /\ InterruptEffects
    /\ irq' = [irq EXCEPT !.ret = irq_ret(IrqStatus(regs)),
                          !.nw = Len(IrqWrites(IrqStatus(regs)))]
    /\ UNCHANGED <<heap, brk, now, events, lock, ctl>>

----------------------------------------------------------------------------
(* Hardware: a status register latches event bits *)

EnableSet(d) == regs[EnableReg(d)] # {}

IrqEnSet(d) == regs[IrqEnReg(d)] # {}

\* bit 0 is the x-run bit of a direction's status register, bit 1 a
\* completion bit, bit 8 a bit above the low byte
RaiseBits == {{0}, {1}, {8}}

\* the device latches bits in a status register; max bounds the events of a
\* behaviour
HwRaiseUpTo(reg, bits, max) ==
    /\ events < max
    /\ events' = events + 1
    /\ regs' = [regs EXCEPT ![reg] = @ \cup bits]
    /\ UNCHANGED <<stream, stats, heap, brk, notif, now, lock, ctl, irq>>

HwRaise(reg, bits) == HwRaiseUpTo(reg, bits, MaxEvents)

\* ktime_get() moves on
Tick ==
    /\ now < MaxTime
    /\ now' = now + 1
    /\ UNCHANGED <<stream, regs, stats, heap, brk, notif, events, lock, ctl, irq>>

----------------------------------------------------------------------------
(* Whole-callback specification *)

TriggerCmds == {"START", "STOP", "RESUME", "SUSPEND", "PAUSE_PUSH"}

\* the hw_params of the lifecycle specification
Configs ==
    {[channels |-> 2, rate |-> 48000, format |-> "S24_LE",
      period_bytes |-> 4096, periods |-> 8]}

Next ==
    \/ \E d \in Dirs : Open(d)
    \/ \E d \in Dirs : Close(d)
    \/ \E d \in Dirs, cfg \in Configs, pagesOK \in BOOLEAN, allocOK \in BOOLEAN :
          HwParams(d, cfg, pagesOK, allocOK)
    \/ \E d \in Dirs : Prepare(d)
    \/ \E d \in Dirs, cmd \in TriggerCmds : Trigger(d, cmd)
    \/ Interrupt
    \/ \E reg \in StatusRegs, bits \in RaiseBits : HwRaise(reg, bits)

Spec == Init /\ [][Next]_vars

----------------------------------------------------------------------------
(* Interleaving specification: the callbacks and the handler statement by   *)
(* statement, one register write per step.  The control-path threads drive  *)
(* the playback direction; hw_params still runs to completion.              *)

\* the direction the control-path threads of the interleaving model drive
ConcDirs == {"pb"}

ConcCmds == {"START", "STOP"}

\* pcie_audio_pcm_open, first statement: stream->substream = substream
OpenBind(t, d) ==
    /\ ctl[t].pc = "idle"
    /\ stream' = [stream EXCEPT ![d].substream = Substream(d)]
    /\ ctl' = [ctl EXCEPT ![t] = [IdleCtl EXCEPT !.pc = "open_reset", !.op = "open", !.dir = d]]
    /\ UNCHANGED <<regs, stats, heap, brk, notif, now, events, lock, irq>>

\* pcie_audio_pcm_open, the monitoring fields
OpenReset(t) ==
    /\ ctl[t].pc = "open_reset"
    /\ stream' = [stream EXCEPT ![ctl[t].dir] =
                     [pcm_open_stream(@, ctl[t].dir, now) EXCEPT !.substream = @]]
    /\ ctl' = [ctl EXCEPT ![t] = IdleCtl]
    /\ UNCHANGED <<regs, stats, heap, brk, notif, now, events, lock, irq>>

\* pcie_audio_pcm_close, the release of the ring
CloseFree(t, d) ==
    /\ ctl[t].pc = "idle"
    /\ IsOpen(d)
    /\ heap' = FreeRing(stream[d], heap)
    /\ stream' = [stream EXCEPT ![d].desc = << >>]
    /\ ctl' = [ctl EXCEPT ![t] = [IdleCtl EXCEPT !.pc = "close_unbind", !.op = "close", !.dir = d]]
    /\ UNCHANGED <<regs, stats, brk, notif, now, events, lock, irq>>

\* pcie_audio_pcm_close: stream->substream = NULL
CloseUnbind(t) ==
    /\ ctl[t].pc = "close_unbind"
    /\ stream' = [stream EXCEPT ![ctl[t].dir].substream = NULL]
    /\ ctl' = [ctl EXCEPT ![t] = IdleCtl]
    /\ UNCHANGED <<regs, stats, heap, brk, notif, now, events, lock, irq>>

\* pcie_audio_prepare, the field resets; its register writes are queued
PrepareReset(t, d) ==
    /\ ctl[t].pc = "idle"
    /\ IsOpen(d)
    /\ stream' = [stream EXCEPT ![d] = prepare_stream(@)]
    /\ ctl' = [ctl EXCEPT ![t] = [IdleCtl EXCEPT !.pc = "write", !.op = "prepare", !.dir = d,
                                                 !.wq = PrepareWrites(d)]]
    /\ UNCHANGED <<regs, stats, heap, brk, notif, now, events, lock, irq>>

\* entry into pcie_audio_trigger
TriggerCall(t, d, cmd) ==
    /\ ctl[t].pc = "idle"
    /\ IsOpen(d)
    /\ ctl' = [ctl EXCEPT ![t] = [IdleCtl EXCEPT !.pc = "trig_lock", !.op = "trigger",
                                                 !.dir = d, !.cmd = cmd]]
    /\ UNCHANGED <<stream, regs, stats, heap, brk, notif, now, events, lock, irq>>

\* spin_lock_irqsave in pcie_audio_trigger: the spinlock is not recursive, a
\* context that asks for a lock it holds spins for ever
TrigLock(c) ==
    /\ ctl[c].pc = "trig_lock"
    /\ lock[ctl[c].dir] = "free"
    /\ lock' = [lock EXCEPT ![ctl[c].dir] = c]
    /\ ctl' = [ctl EXCEPT ![c].wq = TriggerWrites(ctl[c].dir, ctl[c].cmd),
                          ![c].pc = IF TriggerWrites(ctl[c].dir, ctl[c].cmd) = << >>
                                    THEN "trig_unlock" ELSE "write"]
    /\ UNCHANGED <<stream, regs, stats, heap, brk, notif, now, events, irq>>

\* one pcie_audio_write of the callback in progress
CtlWrite(c) ==
    /\ ctl[c].pc = "write"
    /\ regs' = pcie_audio_write(regs, Head(ctl[c].wq)[1], Head(ctl[c].wq)[2])
    /\ ctl' = [ctl EXCEPT ![c] =
                 IF Tail(ctl[c].wq) # << >> THEN [@ EXCEPT !.wq = Tail(@)]
                 ELSE IF ctl[c].op = "trigger" THEN [@ EXCEPT !.wq = << >>, !.pc = "trig_unlock"]
                 ELSE IdleCtl]
    /\ UNCHANGED <<stream, stats, heap, brk, notif, now, events, lock, irq>>

\* the tail of pcie_audio_trigger: the timestamp of a start, then the unlock
TrigUnlock(c) ==
    /\ ctl[c].pc = "trig_unlock"
    /\ stream' = IF ctl[c].cmd \in {"START", "RESUME"}
                 THEN [stream EXCEPT ![ctl[c].dir].last_interrupt = now]
                 ELSE stream
    /\ lock' = [lock EXCEPT ![ctl[c].dir] = "free"]
    /\ ctl' = [ctl EXCEPT ![c] = IdleCtl]
    /\ UNCHANGED <<regs, stats, heap, brk, notif, now, events, irq>>

\* the stage of the handler that follows stage pc for a status word
IrqNextStage(pc, status) ==
    CASE pc = "idle" /\ MaskLow(status) # {} -> [pc |-> "lock", dir |-> "pb"]
      [] pc \in {"idle", "pb"} /\ MaskMid(status) # {} -> [pc |-> "lock", dir |-> "cap"]
      [] OTHER -> [pc |-> "fault", dir |-> "cap"]

\* handler entry: ktime_get and the three status reads
IrqEnter ==
    /\ irq.pc = "idle"
    /\ IrqStatus(regs) # {}
    /\ irq' = [IdleIrq EXCEPT !.status = IrqStatus(regs), !.now = now,
                              !.pc = IrqNextStage("idle", IrqStatus(regs)).pc,
                              !.dir = IrqNextStage("idle", IrqStatus(regs)).dir]
    /\ UNCHANGED <<stream, regs, stats, heap, brk, notif, now, events, lock, ctl>>

\* spin_lock_irqsave on the direction's lock
IrqLock ==
    /\ irq.pc = "lock"
    /\ lock[irq.dir] = "free"
    /\ lock' = [lock EXCEPT ![irq.dir] = "irq"]
    /\ irq' = [irq EXCEPT !.pc = "check"]
    /\ UNCHANGED <<stream, regs, stats, heap, brk, notif, now, events, ctl>>

\* if (chip->playback.substream)
IrqCheck ==
    /\ irq.pc = "check"
    /\ irq' = [irq EXCEPT !.seen = stream[irq.dir].substream,
                          !.pc = IF stream[irq.dir].substream # NULL THEN "body" ELSE "notified"]
    /\ UNCHANGED <<stream, regs, stats, heap, brk, notif, now, events, lock, ctl>>

\* the counters and the notification.  The substream handed to the framework
\* is either read again from the stream or the value seen by the test; a
\* NULL handed to the framework is dereferenced there and the handler dies.
\* The framework may run the trigger callback with STOP from inside
\* snd_pcm_stop_xrun.
IrqBody(reload, sync) ==
    LET d  == irq.dir
        to == IF reload THEN stream[d].substream ELSE irq.seen
        S  == irq_body_to(d, irq.status, [stream |-> stream, stats |-> stats, notif |-> notif],
                          irq.now, to)
        xrun == XrunBit(d) \in irq.status
    IN  /\ irq.pc = "body"
        /\ IF to = NULL
           THEN /\ irq' = [irq EXCEPT !.pc = "oops"]
                /\ stream' = [stream EXCEPT ![d] = irq_stream_update(@, irq.now)]
                /\ UNCHANGED <<stats, notif, ctl>>
           ELSE /\ stream' = S.stream
                /\ stats' = S.stats
                /\ notif' = S.notif
                /\ irq' = [irq EXCEPT !.pc = "notified"]
                /\ ctl' = IF sync /\ xrun
                          THEN [ctl EXCEPT !["irq"] =
                                   [IdleCtl EXCEPT !.pc = "trig_lock", !.op = "trigger",
                                                   !.dir = d, !.cmd = "STOP"]]
                          ELSE ctl
        /\ UNCHANGED <<regs, heap, brk, now, events, lock>>

\* spin_unlock_irqrestore, once the notification call has returned
IrqUnlock ==
    /\ irq.pc = "notified"
    /\ ctl["irq"].pc = "idle"
    /\ lock' = [lock EXCEPT ![irq.dir] = "free"]
    /\ irq' = [irq EXCEPT !.pc = IrqNextStage(irq.dir, irq.status).pc,
                          !.dir = IrqNextStage(irq.dir, irq.status).dir]
    /\ UNCHANGED <<stream, regs, stats, heap, brk, notif, now, events, ctl>>

\* the DMA-error test; the fault writes and the status clear are queued
IrqFault ==
    /\ irq.pc = "fault"
    /\ stats' = IF MaskHigh(irq.status) # {} THEN [stats EXCEPT !.dma_errors = @ + 1] ELSE stats
    /\ irq' = [irq EXCEPT !.pc = "write",
                          !.wq = (IF MaskHigh(irq.status) # {} THEN DmaFaultWrites ELSE << >>)
                                 \o ClearWrites]
    /\ UNCHANGED <<stream, regs, heap, brk, notif, now, events, lock, ctl>>

\* one pcie_audio_write of the handler
IrqWrite ==
    /\ irq.pc = "write"
    /\ regs' = pcie_audio_write(regs, Head(irq.wq)[1], Head(irq.wq)[2])
    /\ irq' = IF Tail(irq.wq) # << >> THEN [irq EXCEPT !.wq = Tail(@)] ELSE IdleIrq
    /\ UNCHANGED <<stream, stats, heap, brk, notif, now, events, lock, ctl>>

NextConc ==
    \/ \E t \in Threads, d \in ConcDirs : OpenBind(t, d)
    \/ \E t \in Threads : OpenReset(t)
    \/ \E t \in Threads, d \in ConcDirs : CloseFree(t, d)
    \/ \E t \in Threads : CloseUnbind(t)
    \/ \E t \in Threads, d \in ConcDirs : PrepareReset(t, d)
    \/ \E t \in Threads, d \in ConcDirs, cmd \in ConcCmds : TriggerCall(t, d, cmd)
    \/ \E c \in Ctx : TrigLock(c)
    \/ \E c \in Ctx : CtlWrite(c)
    \/ \E c \in Ctx : TrigUnlock(c)
    \/ \E d \in ConcDirs, cfg \in Configs : HwParams(d, cfg, TRUE, TRUE)
    \/ IrqEnter
    \/ IrqLock
    \/ IrqCheck
    \/ \E reload \in BOOLEAN, sync \in BOOLEAN : IrqBody(reload, sync)
    \/ IrqUnlock
    \/ IrqFault
    \/ IrqWrite
    \/ \E reg \in StatusRegs, bits \in RaiseBits : HwRaise(reg, bits)

SpecConc == Init /\ [][NextConc]_vars

----------------------------------------------------------------------------
(* Ring-construction specification: open and hw_params over the whole range *)
(* of valid period layouts                                                  *)

PeriodBytesChoices == {MIN_PERIOD_SIZE, 4096, MAX_PERIOD_SIZE}

ValidLayout(period_bytes, periods) ==
    /\ period_bytes >= MIN_PERIOD_SIZE /\ period_bytes <= MAX_PERIOD_SIZE
    /\ periods >= MIN_PERIODS /\ periods <= MAX_PERIODS
    /\ period_bytes * periods <= MAX_BUFFER_SIZE

RingConfigs ==
    {[channels |-> 2, rate |-> 48000, format |-> "S24_LE",
      period_bytes |-> pb, periods |-> n] :
        <<pb, n>> \in {x \in PeriodBytesChoices \X (MIN_PERIODS..MAX_PERIODS) :
                          ValidLayout(x[1], x[2])}}

NextRing ==
    \/ Open("pb")
    \/ \E cfg \in RingConfigs, allocOK \in BOOLEAN : HwParams("pb", cfg, TRUE, allocOK)

SpecRing == Init /\ [][NextRing]_vars

----------------------------------------------------------------------------
(* Parameter-range specification: hw_params over in-range and out-of-range  *)
(* requests                                                                 *)

\* the return value of pcie_audio_hw_params
hw_params_ret(d, st, cfg, hp, bk, pagesOK, allocOK) ==
    IF ~pagesOK THEN "ENOMEM"
    ELSE setup_dma_descriptors(d, st, cfg, hp, bk, allocOK).err

IsDsd(format) == format = "DSD_U8"

\* the ranges of include/pcie-audio.h
ValidConfig(cfg) ==
    /\ cfg.channels >= 1 /\ cfg.channels <= MAX_CHANNELS
    /\ ValidLayout(cfg.period_bytes, cfg.periods)
    /\ IsDsd(cfg.format) => cfg.rate <= MAX_DSD_RATE

BaseConfig ==
    [channels |-> 2, rate |-> 48000, format |-> "S24_LE",
     period_bytes |-> 4096, periods |-> 8]

\* one request inside the ranges, and requests that leave one range each;
\* period_bytes is a whole number of frames in each
AnyConfigs ==
    {BaseConfig,
     [BaseConfig EXCEPT !.channels = MAX_CHANNELS + 1, !.period_bytes = 4608],
     [BaseConfig EXCEPT !.period_bytes = MIN_PERIOD_SIZE \div 2],
     [BaseConfig EXCEPT !.period_bytes = 2 * MAX_PERIOD_SIZE, !.periods = 2],
     [BaseConfig EXCEPT !.periods = MIN_PERIODS - 1],
     [BaseConfig EXCEPT !.periods = MAX_PERIODS + 1, !.period_bytes = MIN_PERIOD_SIZE],
     [BaseConfig EXCEPT !.period_bytes = MAX_PERIOD_SIZE, !.periods = 16],
     [BaseConfig EXCEPT !.format = "DSD_U8", !.rate = MAX_DSD_RATE],
     [BaseConfig EXCEPT !.format = "DSD_U8", !.rate = 2 * MAX_DSD_RATE]}

NextParams ==
    \/ \E d \in Dirs : Open(d)
    \/ \E d \in Dirs : Close(d)
    \/ \E d \in Dirs, cfg \in AnyConfigs, pagesOK \in BOOLEAN, allocOK \in BOOLEAN :
          HwParams(d, cfg, pagesOK, allocOK)

SpecParams == Init /\ [][NextParams]_vars

----------------------------------------------------------------------------
(* Shared-configuration specification: both directions and the rate control *)
(* write the device-wide format and rate registers                          *)

\* rates[] of rate_put
CtlRates == <<44100, 48000, 88200, 96000, 176400, 192000>>

\* the enumerated items the model hands to rate_put; the last is out of range
RateItems == {0, 1, 5, 6}

\* rate_put of the "Sample Rate" control
RatePut(item) ==
    /\ regs' = IF item >= Len(CtlRates) THEN regs
               ELSE pcie_audio_write(regs, "REG_CTRL_TARGET_RATE", Bits(CtlRates[item + 1]))
    /\ UNCHANGED <<stream, stats, heap, brk, notif, now, events, lock, ctl, irq>>

CtlConfigs ==
    {BaseConfig,
     [BaseConfig EXCEPT !.channels = 8, !.rate = 44100, !.format = "S16_LE"]}

NextCtl ==
    \/ \E d \in Dirs : Open(d)
    \/ \E d \in Dirs, cfg \in CtlConfigs : HwParams(d, cfg, TRUE, TRUE)
    \/ \E d \in Dirs : Prepare(d)
    \/ \E d \in Dirs, cmd \in ConcCmds : Trigger(d, cmd)
    \/ \E item \in RateItems : RatePut(item)

SpecCtl == Init /\ [][NextCtl]_vars

----------------------------------------------------------------------------
(* Position specification: the DMA engine walks the ring it was programmed  *)
(* with while the driver answers pointer queries                            *)

\* pcie_audio_pointer: the frame position computed from the two readbacks
pcie_audio_pointer(r, d, st) ==
    (WordVal(pcie_audio_read(r, CurrentReg(d))) * st.period_size +
     WordVal(pcie_audio_read(r, ActiveReg(d)))) \div FrameBytes(st)

\* bytes the engine moves in one step: half of the programmed segment size
AdvanceBytes(r, d) == WordVal(r[SizeReg(d)]) \div 2

\* the enabled engine moves on: the offset grows inside the segment, then
\* the index steps to the next descriptor of the programmed count
HwAdvance(d) ==
    LET cur   == WordVal(regs[CurrentReg(d)])
        off   == WordVal(regs[ActiveReg(d)])
        size  == WordVal(regs[SizeReg(d)])
        count == WordVal(regs[DescCountReg(d)])
        off1  == off + AdvanceBytes(regs, d)
    IN  /\ EnableSet(d)
        /\ size > 0 /\ count > 0
        /\ regs' = IF off1 >= size
                   THEN [regs EXCEPT ![ActiveReg(d)] = {},
                                     ![CurrentReg(d)] = Bits((cur + 1) % count)]
                   ELSE [regs EXCEPT ![ActiveReg(d)] = Bits(off1)]
        /\ UNCHANGED <<stream, stats, heap, brk, notif, now, events, lock, ctl, irq>>

\* 2 channels of S24_LE: 8 bytes a frame
PosConfigs ==
    {[BaseConfig EXCEPT !.period_bytes = MIN_PERIOD_SIZE, !.periods = n] : n \in {3, 8}}

NextPos ==
    \/ Open("pb")
    \/ \E cfg \in PosConfigs : HwParams("pb", cfg, TRUE, TRUE)
    \/ Prepare("pb")
    \/ \E cmd \in ConcCmds : Trigger("pb", cmd)
    \/ HwAdvance("pb")

SpecPos == Init /\ [][NextPos]_vars

----------------------------------------------------------------------------
(* Handler specification: several status events, a running clock, sessions  *)
(* that come and go                                                         *)

NextIrq ==
    \/ \E d \in Dirs : Open(d)
    \/ \E d \in Dirs : Close(d)
    \/ IrqCall
    \/ \E reg \in StatusRegs, bits \in RaiseBits : HwRaiseUpTo(reg, bits, MaxIrqEvents)
    \/ Tick

SpecIrq == Init /\ [][NextIrq]_vars

----------------------------------------------------------------------------
(* Format and rate specification: hw_params over the rates of both families *)
(* and the "Format" control                                                 *)

\* format_put of the "Format" control: bit 31 of the format register
FormatPut(item) ==
    /\ regs' = pcie_audio_write(regs, "REG_CTRL_FORMAT",
                   (pcie_audio_read(regs, "REG_CTRL_FORMAT") \ {31}) \cup
                   (IF item % 2 = 1 THEN {31} ELSE {}))
    /\ UNCHANGED <<stream, stats, heap, brk, notif, now, events, lock, ctl, irq>>

\* multiples of 44100 and of 48000, the last a multiple of both
RateChoices ==
    {44100, 48000, 88200, 96000, 176400, 192000, 128 * 44100, 128 * 48000, 160 * 44100}

\* 2 channels of S24_3LE: 6 bytes a frame
FmtConfigs ==
    {[BaseConfig EXCEPT !.rate = r, !.format = "S24_3LE", !.period_bytes = 4608] :
        r \in RateChoices}

NextFmt ==
    \/ \E d \in Dirs : Open(d)
    \/ \E d \in Dirs, cfg \in FmtConfigs : HwParams(d, cfg, TRUE, TRUE)
    \/ \E item \in {0, 1} : FormatPut(item)

SpecFmt == Init /\ [][NextFmt]_vars

----------------------------------------------------------------------------
(* Bring-up specification: pcie_audio_init_hw, called by probe and by       *)
(* resume, on a device whose status registers may hold earlier events       *)

\* the registers before bring-up: status register r holds stale[r]
PowerOnRegs(stale) == [r \in RegNames |-> IF r \in StatusRegs THEN stale[r] ELSE {}]

InitBoot ==
    /\ stream = [d \in Dirs |-> EmptyStream]
    /\ regs \in {PowerOnRegs(stale) : stale \in [StatusRegs -> {{}, {0}}]}
    /\ stats = [pb_underruns |-> 0, cap_overruns |-> 0, dma_errors |-> 0]
    /\ heap = {}
    /\ brk = 1
    /\ notif = [d \in Dirs |-> <<>>]
    /\ now = 0
    /\ events = 0
    /\ lock = [d \in Dirs |-> "free"]
    /\ ctl = [c \in Ctx |-> IdleCtl]
    /\ irq = IdleIrq

\* the writes of pcie_audio_init_hw before the lock wait, in program order
InitHwWrites ==
    << <<"REG_CTRL_RESET", Bits(1)>>, <<"REG_CTRL_RESET", {}>>,
       <<"REG_DMA_CONFIG", InitHwDmaConfig>>,
       <<"REG_DMA_PB_THRESHOLD", Bits(1024)>>, <<"REG_DMA_CAP_THRESHOLD", Bits(1024)>>,
       <<"REG_CTRL_FORMAT", InitHwFormat>>,
       <<"REG_CTRL_SYNC_TIMEOUT", InitHwSyncTimeout>> >>

\* the writes after clock_locked, in program order
InitHwLockedWrites ==
    << <<"REG_PCIE_CONFIG", InitHwPcieConfig>>,
       <<"REG_STATUS_PB_UNDERRUN", AllOnes>>, <<"REG_STATUS_CAP_OVERRUN", AllOnes>>,
       <<"REG_STATUS_DMA_ERROR", AllOnes>> >>

\* the lock wait giving up with an error
InitHwTimeoutRet_error == "ETIMEDOUT"

\* the return value of pcie_audio_init_hw when the lock wait times out
InitHwTimeoutRet == "OK"

\* pcie_audio_init_hw up to the start of the lock wait
InitHwStart(t) ==
    /\ ctl[t].pc = "idle" /\ ctl[t].ret = "none"
    /\ regs' = ApplyWrites(regs, InitHwWrites)
    /\ ctl' = [ctl EXCEPT ![t] = [IdleCtl EXCEPT !.pc = "init_poll", !.op = "init_hw",
                                                 !.until = now + LockTimeout]]
    /\ UNCHANGED <<stream, stats, heap, brk, notif, now, events, lock, irq>>

\* one turn of the lock wait: the loop test, the read of the locked bit, and
\* msleep(1), which lets at least one tick pass
InitHwPoll(t, slept) ==
    /\ ctl[t].pc = "init_poll"
    /\ IF now < ctl[t].until
       THEN IF pcie_audio_read(regs, "REG_STATUS_LOCKED") # {}
            THEN /\ ctl' = [ctl EXCEPT ![t].pc = "init_locked"]
                 /\ UNCHANGED now
            ELSE /\ now' = now + slept
                 /\ UNCHANGED ctl
       ELSE /\ ctl' = [ctl EXCEPT ![t].pc = "init_done", ![t].ret = InitHwTimeoutRet]
            /\ UNCHANGED now
    /\ UNCHANGED <<stream, regs, stats, heap, brk, notif, events, lock, irq>>

\* clock_locked: the PCIe word, the status clear, return 0
InitHwLocked(t) ==
    /\ ctl[t].pc = "init_locked"
    /\ regs' = ApplyWrites(regs, InitHwLockedWrites)
    /\ ctl' = [ctl EXCEPT ![t].pc = "init_done", ![t].ret = "OK"]
    /\ UNCHANGED <<stream, stats, heap, brk, notif, now, events, lock, irq>>

\* the clock recovery locks
HwLock ==
    /\ regs["REG_STATUS_LOCKED"] = {}
    /\ regs' = [regs EXCEPT !["REG_STATUS_LOCKED"] = Bits(1)]
    /\ UNCHANGED <<stream, stats, heap, brk, notif, now, events, lock, ctl, irq>>

BootStep ==
    \/ InitHwStart("t1")
    \/ \E slept \in {1, 2} : InitHwPoll("t1", slept)
    \/ InitHwLocked("t1")

NextBoot ==
    \/ BootStep
    \/ HwLock
    \/ \E reg \in StatusRegs, bits \in RaiseBits : HwRaise(reg, bits)

\* the bring-up code is scheduled until it returns
SpecBoot == InitBoot /\ [][NextBoot]_vars /\ WF_vars(BootStep)

BootDone == ctl["t1"].pc = "init_done"

----------------------------------------------------------------------------
(* Status specification: the handler statement by statement while the       *)
(* device goes on latching status bits                                      *)

NextStatus ==
    \/ \E d \in Dirs : Open(d)
    \/ IrqEnter
    \/ IrqLock
    \/ IrqCheck
    \/ \E reload \in BOOLEAN, sync \in BOOLEAN : IrqBody(reload, sync)
    \/ \E d \in ConcDirs, cmd \in {"START", "STOP"} : TriggerCall("t1", d, cmd)
    \/ \E c \in Ctx : TrigLock(c)
    \/ \E c \in Ctx : CtlWrite(c)
    \/ \E c \in Ctx : TrigUnlock(c)
    \/ IrqUnlock
    \/ IrqFault
    \/ IrqWrite
    \/ \E reg \in StatusRegs, bits \in RaiseBits : HwRaiseUpTo(reg, bits, MaxIrqEvents)

SpecStatus == Init /\ [][NextStatus]_vars

----------------------------------------------------------------------------
(* Ring shape *)

HasRing(d) == stream[d].desc # <<>>

\* index of the descriptor that descriptor i (0-based) chains to
RingNextIndex(st, i) == (st.desc[i + 1].next - st.desc_dma) \div SizeofDesc

\* the indices visited from index 0 in n steps along the next pointers
RECURSIVE RingWalk(_, _, _)
RingWalk(st, i, n) ==
    IF n = 0 THEN << >> ELSE <<i>> \o RingWalk(st, RingNextIndex(st, i), n - 1)

\* the next pointers form one cycle through every index, closing at index 0
RingIsOneCycle(st) ==
    LET n    == Len(st.desc)
        walk == RingWalk(st, 0, n)
    IN  /\ \A i \in 0..(n - 1) : st.desc[i + 1].next =
                                  st.desc_dma + RingNextIndex(st, i) * SizeofDesc
        /\ \A i \in 0..(n - 1) : RingNextIndex(st, i) \in 0..(n - 1)
        /\ {walk[k] : k \in 1..n} = 0..(n - 1)
        /\ RingNextIndex(st, walk[n]) = 0

RingWrapIndices(st) ==
    {i \in 0..(Len(st.desc) - 1) : DESC_FLAG_WRAP \subseteq st.desc[i + 1].flags}

----------------------------------------------------------------------------
(* Properties *)

\* C1: after a valid configure the stream's ring has exactly period_count
\* descriptors, that count is in the descriptor-count register, the next
\* pointers form a single cycle through every index back to index 0, and
\* exactly the last descriptor carries WRAP.
C1_RingHasPeriodCountDescriptors ==
    \A d \in Dirs :
        HasRing(d) =>
            /\ Len(stream[d].desc) = stream[d].periods
            /\ regs[DescCountReg(d)] = Bits(stream[d].periods)
            /\ RingIsOneCycle(stream[d])
            /\ RingWrapIndices(stream[d]) = {stream[d].periods - 1}

\* a direction's ring allocation is returned to the allocator in this step
RingReleased(d) ==
    /\ HasRing(d)
    /\ stream[d].desc_dma \in heap
    /\ stream[d].desc_dma \notin heap'

\* C2: a direction's ring is never released, by close or by the rebuild in
\* hw_params, while that direction's enable register is set.
C2_RingNotReleasedWhileEnabled ==
    [][\A d \in Dirs : RingReleased(d) => ~EnableSet(d)]_vars

\* the handler runs and finds direction d's x-run bit in the combined status
SeesXrun(d) == Interrupt /\ XrunBit(d) \in IrqStatus(regs)

\* C3: a handler run that sees a direction's x-run bit while a substream is
\* bound appends exactly one notification, an x-run addressed to that
\* substream (so no period-elapsed), and adds exactly 1 to the device-wide
\* x-run statistic and to the stream's error counter.
C3_XrunNotifiedOnce ==
    [][\A d \in Dirs :
          (SeesXrun(d) /\ stream[d].substream # NULL) =>
              /\ notif'[d] = Append(notif[d], [kind |-> "xrun", to |-> stream[d].substream])
              /\ stats'[XrunStat(d)] = stats[XrunStat(d)] + 1
              /\ stream'[d].errors = stream[d].errors + 1]_vars

C3_Witness ==
    \E d \in Dirs :
        /\ notif[d] = << [kind |-> "xrun", to |-> Substream(d)] >>
        /\ stats[XrunStat(d)] = 1
        /\ stream[d].errors = 1
        /\ stream[d].substream = Substream(d)

\* C4: a handler run that sees a direction's x-run bit while no substream is
\* bound sends no notification and still adds 1 to the device-wide x-run
\* statistic.
C4_UnboundXrunStillCounted ==
    [][\A d \in Dirs :
          (SeesXrun(d) /\ stream[d].substream = NULL) =>
              /\ notif'[d] = notif[d]
              /\ stats'[XrunStat(d)] = stats[XrunStat(d)] + 1]_vars

\* the handler runs and finds a DMA-error bit in the combined status
SeesDmaFault == Interrupt /\ MaskHigh(IrqStatus(regs)) # {}

\* C5: a handler run that sees a DMA-error bit adds 1 to the DMA-error
\* statistic, leaves both enable registers 0 and leaves the DMA
\* configuration register at the value written at bring-up.
C5_DmaFaultStopsBothAndRestoresBaseline ==
    [][SeesDmaFault =>
          /\ stats'.dma_errors = stats.dma_errors + 1
          /\ regs'["REG_CTRL_PB_ENABLE"] = {}
          /\ regs'["REG_CTRL_CAP_ENABLE"] = {}
          /\ regs'["REG_DMA_CONFIG"] = InitHwDmaConfig]_vars

\* a fault was handled after a direction had been started: its IRQ-enable is
\* still set, its enable was cleared by the handler
C5_Witness ==
    /\ stats.dma_errors = 1
    /\ \E d \in Dirs : IrqEnSet(d) /\ ~EnableSet(d)
    /\ \A d \in Dirs : ~EnableSet(d)
    /\ regs["REG_DMA_CONFIG"] = InitHwDmaConfig

\* C6: a handler run that sees a DMA-error bit while a direction is bound
\* and enabled delivers an x-run notification to that direction's substream.
C6_DmaFaultDeliversXrun ==
    [][\A d \in Dirs :
          (SeesDmaFault /\ stream[d].substream # NULL /\ EnableSet(d)) =>
              \E k \in (Len(notif[d]) + 1)..Len(notif'[d]) :
                  notif'[d][k] = [kind |-> "xrun", to |-> stream[d].substream]]_vars

\* C10: open on a direction that already has a bound substream fails with
\* AlreadyOpen and leaves that stream unchanged.
C10_OpenOnBoundFails ==
    [][\A d \in Dirs :
          (Open(d) /\ stream[d].substream # NULL) =>
              /\ pcm_open_ret(stream[d]) = "AlreadyOpen"
              /\ stream'[d] = stream[d]]_vars

\* C7: at the granularity of single register writes, a direction's enable
\* register being set implies its IRQ-enable register is set, under every
\* interleaving of prepare, start, stop and the handler's fault path.
C7_EnableImpliesIrqEnable ==
    \A d \in Dirs : EnableSet(d) => IrqEnSet(d)

\* a control-path thread takes a step
ControlStep == \E t \in Threads : ctl'[t] # ctl[t]

\* C8: while the handler holds a direction's lock no control-path step
\* changes that direction's stream state or releases its ring.
C8_NoControlMutationInsideHandlerSection ==
    [][\A d \in Dirs :
          (lock[d] = "irq" /\ ControlStep) =>
              (stream'[d] = stream[d] /\ heap' = heap)]_vars

\* C9: the handler never waits, inside a notification, for a lock that the
\* handler itself holds.
C9_HandlerNeverSpinsOnOwnLock ==
    ~(ctl["irq"].pc = "trig_lock" /\ lock[ctl["irq"].dir] = "irq")

\* C11: hw_params with an argument outside the ranges (channels, period
\* bytes, period count, total buffer size, DSD rate) returns an
\* invalid-parameter error and changes no stream field, no register and no
\* ring.
C11_OutOfRangeRejectedUntouched ==
    [][\A d \in Dirs, cfg \in AnyConfigs, pagesOK \in BOOLEAN, allocOK \in BOOLEAN :
          (HwParams(d, cfg, pagesOK, allocOK) /\ ~ValidConfig(cfg)) =>
              /\ hw_params_ret(d, stream[d], cfg, heap, brk, pagesOK, allocOK) = "EINVAL"
              /\ UNCHANGED <<stream, regs, heap>>]_vars

\* hw_params runs on direction d and the descriptor allocation fails
RingAllocFails(d) ==
    \E cfg \in Configs, allocOK \in BOOLEAN :
        /\ HwParams(d, cfg, TRUE, allocOK)
        /\ setup_dma_descriptors(d, stream[d], cfg, heap, brk, allocOK).err = "ENOMEM"

\* C12: when the descriptor allocation of hw_params fails on a stream that
\* has a ring, that ring is still allocated and still the stream's ring, and
\* no stream field and no register has changed.
C12_RingAllocFailureIsAtomic ==
    [][\A d \in Dirs :
          (RingAllocFails(d) /\ HasRing(d)) =>
              /\ stream[d].desc_dma \in heap'
              /\ stream'[d] = stream[d]
              /\ regs' = regs]_vars

\* the device-wide format and rate registers hold what hw_params writes for
\* stream st
CtrlRegsMatch(st) ==
    /\ regs["REG_CTRL_FORMAT"] = FormatCtrl(st)
    /\ regs["REG_CTRL_SAMPLE_FAMILY"] = RateCtrl(st.rate)
    /\ regs["REG_CTRL_TARGET_RATE"] = Bits(st.rate)

\* C13: whenever a configured direction's enable register is set, the
\* device-wide format, sample-family and target-rate registers hold the
\* values of that direction's channels, format and rate.
C13_EnabledImpliesOwnFormatAndRate ==
    \A d \in Dirs : (EnableSet(d) /\ HasRing(d)) => CtrlRegsMatch(stream[d])

\* the buffer size of stream st in frames
TotalFrames(st) == st.buffer_size \div FrameBytes(st)

\* C14: while a configured direction is enabled and the engine advances
\* steadily, the queried position never steps backwards modulo the buffer
\* size in frames: the forward distance from one result to the next is at
\* most the frames the engine moved.
C14_PositionMonotoneModuloBuffer ==
    [][\A d \in Dirs :
          (HwAdvance(d) /\ HasRing(d)) =>
              (pcie_audio_pointer(regs', d, stream[d]) -
               pcie_audio_pointer(regs, d, stream[d])) % TotalFrames(stream[d])
                  <= AdvanceBytes(regs, d) \div FrameBytes(stream[d])]_vars

\* C15: the queried position of a configured direction is always below the
\* buffer size in frames.
C15_PositionBelowBufferSize ==
    \A d \in Dirs :
        HasRing(d) => pcie_audio_pointer(regs, d, stream[d]) < TotalFrames(stream[d])

\* the registers pcie_audio_prepare writes for direction d
PrepareRegs(d) == {EnableReg(d), IrqEnReg(d), StatusReg(d)}

\* C16: prepare leaves current_desc, hw_ptr and prev_hw_ptr zero, the
\* direction's enable, IRQ-enable and status registers clear, every other
\* stream field, register and the ring as they were, and a second prepare
\* right after it changes nothing.
C16_PrepareResetsAndIsIdempotent ==
    [][\A d \in Dirs :
          Prepare(d) =>
              /\ stream'[d] = [stream[d] EXCEPT !.current_desc = 0, !.hw_ptr = 0,
                                                !.prev_hw_ptr = 0]
              /\ \A r \in PrepareRegs(d) : regs'[r] = {}
              /\ \A r \in RegNames \ PrepareRegs(d) : regs'[r] = regs[r]
              /\ \A e \in Dirs \ {d} : stream'[e] = stream[e]
              /\ heap' = heap
              /\ prepare_stream(stream'[d]) = stream'[d]
              /\ ApplyWrites(regs', PrepareWrites(d)) = regs']_vars

\* prepare has acted on a started direction whose status register held an
\* event: counters and ring are as before, the three registers are clear
C16_Witness ==
    \E d \in Dirs :
        /\ HasRing(d) /\ IsOpen(d)
        /\ events >= 1 /\ stream[d].interrupts = 0
        /\ \A r \in StatusRegs : regs[r] = {}
        /\ ~EnableSet(d) /\ ~IrqEnSet(d)
        /\ \E e \in Dirs \ {d} : EnableSet(e) /\ IrqEnSet(e)

\* C18: a handler run that sees any status bit leaves all three status
\* registers clear, whichever bits it acted on and whether or not a
\* substream is bound.
C18_HandlerClearsAllStatus ==
    [][(Interrupt /\ IrqStatus(regs) # {}) =>
          \A r \in StatusRegs : regs'[r] = {}]_vars

\* a capture-overrun event was handled with no substream bound on either
\* direction: nothing was counted, the status is gone
C18_Witness ==
    /\ events >= 1
    /\ \A r \in StatusRegs : regs[r] = {}
    /\ \A d \in Dirs : stream[d] = EmptyStream
    /\ stats = [pb_underruns |-> 0, cap_overruns |-> 0, dma_errors |-> 0]

\* C17: a handler run that reads a zero combined status returns IRQ_NONE,
\* issues no register write and changes no stream field, statistic,
\* notification or register.
C17_ZeroStatusIsNotOurs ==
    [][(IrqCall /\ IrqStatus(regs) = {}) =>
          /\ irq'.ret = "IRQ_NONE"
          /\ irq'.nw = 0
          /\ UNCHANGED <<stream, stats, notif, regs>>]_vars

\* the handler was called with nothing pending, after an earlier event had
\* been handled for a bound substream and the clock had moved on
C17_Witness ==
    /\ irq.ret = "IRQ_NONE"
    /\ irq.nw = 0
    /\ \E d \in Dirs : IsOpen(d) /\ stream[d].interrupts >= 1 /\ stream[d].last_interrupt < now

\* C19: a handler run that sees a direction's status bits while a substream
\* is bound appends exactly one notification for that substream (x-run when
\* the x-run bit is set, period-elapsed otherwise) after all earlier ones,
\* which stay as they were and in their order.
C19_OneNotificationPerInterruptInOrder ==
    [][\A d \in Dirs :
          (IrqCall /\ DirMask(d, IrqStatus(regs)) # {} /\ stream[d].substream # NULL) =>
              /\ Len(notif'[d]) = Len(notif[d]) + 1
              /\ SubSeq(notif'[d], 1, Len(notif[d])) = notif[d]
              /\ notif'[d][Len(notif'[d])] =
                    [kind |-> IF XrunBit(d) \in IrqStatus(regs) THEN "xrun" ELSE "period",
                     to   |-> stream[d].substream]]_vars

\* two interrupts of one direction were handled: a period, then an x-run
C19_Witness ==
    \E d \in Dirs :
        /\ Len(notif[d]) = 2
        /\ notif[d][1].kind = "period"
        /\ notif[d][2].kind = "xrun"
        /\ stream[d].interrupts = 2

\* the handler runs and finds a completion bit of direction d, and not its
\* x-run bit, in the combined status
SeesPeriod(d) ==
    /\ Interrupt
    /\ DirMask(d, IrqStatus(regs)) # {}
    /\ XrunBit(d) \notin IrqStatus(regs)

\* C20: on an open, configured and started direction each period-elapsed
\* interrupt advances the stream's current descriptor index by one modulo
\* the period count and updates the latency and last-interrupt fields.
C20_PeriodInterruptAdvancesDescriptor ==
    [][\A d \in Dirs :
          (SeesPeriod(d) /\ IsOpen(d) /\ HasRing(d) /\ EnableSet(d)) =>
              /\ stream'[d].current_desc =
                    (stream[d].current_desc + 1) % stream[d].periods
              /\ stream'[d].last_interrupt = now
              /\ stream'[d].latency = now - stream[d].last_interrupt]_vars

\* hw_params runs on direction d with request cfg and succeeds
Configured(d, cfg) ==
    /\ HwParams(d, cfg, TRUE, TRUE)
    /\ hw_params_ret(d, stream[d], cfg, heap, brk, TRUE, TRUE) = "OK"

\* the number held in bits 8 to 30 of a word
FieldFrom8(x) == WordVal({b - 8 : b \in x \cap (8..30)})

\* the base rate of the family a sample-family word selects
FamilyBase(x) == IF 31 \in x THEN 48000 ELSE 44100

\* C21 as stated: hw_params writes the literal rate to the target-rate
\* register, and to the sample-family register the family (44.1 kHz iff the
\* rate is divisible by 44100) together with the multiplier rate / base.
C21_FamilyRegisterHoldsMultiplier ==
    [][\A d \in Dirs, cfg \in FmtConfigs :
          Configured(d, cfg) =>
              /\ regs'["REG_CTRL_TARGET_RATE"] = Bits(cfg.rate)
              /\ (31 \in regs'["REG_CTRL_SAMPLE_FAMILY"]) <=> (cfg.rate % 44100 # 0)
              /\ FieldFrom8(regs'["REG_CTRL_SAMPLE_FAMILY"]) =
                    cfg.rate \div FamilyBase(regs'["REG_CTRL_SAMPLE_FAMILY"])]_vars

\* C21 amended: the field above the low byte of the sample-family register
\* holds the multiplier minus one, so base x (field + 1) is the target rate.
C21_FamilyRegisterHoldsMultiplierMinusOne ==
    [][\A d \in Dirs, cfg \in FmtConfigs :
          Configured(d, cfg) =>
              /\ regs'["REG_CTRL_TARGET_RATE"] = Bits(cfg.rate)
              /\ (31 \in regs'["REG_CTRL_SAMPLE_FAMILY"]) <=> (cfg.rate % 44100 # 0)
              /\ regs'["REG_CTRL_SAMPLE_FAMILY"] \cap (0..7) = {}
              /\ FieldFrom8(regs'["REG_CTRL_SAMPLE_FAMILY"]) =
                    cfg.rate \div FamilyBase(regs'["REG_CTRL_SAMPLE_FAMILY"]) - 1
              /\ FamilyBase(regs'["REG_CTRL_SAMPLE_FAMILY"]) *
                    (FieldFrom8(regs'["REG_CTRL_SAMPLE_FAMILY"]) + 1) =
                 WordVal(regs'["REG_CTRL_TARGET_RATE"])]_vars

\* 96000 was configured: 48 kHz family, field 1
C21_Witness ==
    /\ regs["REG_CTRL_TARGET_RATE"] = Bits(96000)
    /\ regs["REG_CTRL_SAMPLE_FAMILY"] = {31, 8}
    /\ \E d \in Dirs : HasRing(d) /\ stream[d].rate = 96000

\* C22: hw_params leaves in the format register the width in bits 8 to 15,
\* the channel count minus one in the low byte, and the DSD flag (bit 31)
\* that was in effect before the call.
C22_FormatRegisterKeepsDsdFlag ==
    [][\A d \in Dirs, cfg \in FmtConfigs :
          Configured(d, cfg) =>
              /\ WordVal({b - 8 : b \in regs'["REG_CTRL_FORMAT"] \cap (8..15)}) =
                    PhysicalWidth(cfg.format)
              /\ WordVal(regs'["REG_CTRL_FORMAT"] \cap (0..7)) = cfg.channels - 1
              /\ (31 \in regs'["REG_CTRL_FORMAT"]) <=> (31 \in regs["REG_CTRL_FORMAT"])]_vars

\* C23: bring-up always returns, and returns success, whether the locked bit
\* becomes set during the wait or never.
C23_BringUpTerminatesWithSuccess ==
    /\ <>BootDone
    /\ [](BootDone => ctl["t1"].ret = "OK")

\* bring-up returned after the lock wait timed out
C23_Witness ==
    /\ BootDone
    /\ regs["REG_STATUS_LOCKED"] = {}
    /\ now >= ctl["t1"].until

\* pcie_audio_init_hw returns in this step
BootReturns == ~BootDone /\ BootDone'

\* C24: when bring-up returns, on either path, the reset register is back
\* at 0, the DMA configuration, the default thresholds and the default
\* format are written and all three status registers are clear.
C24_BringUpEstablishesBaseline ==
    [][BootReturns =>
          /\ regs'["REG_CTRL_RESET"] = {}
          /\ regs'["REG_DMA_CONFIG"] = InitHwDmaConfig
          /\ \A d \in Dirs : regs'[ThresholdReg(d)] = Bits(1024)
          /\ regs'["REG_CTRL_FORMAT"] = InitHwFormat
          /\ \A r \in StatusRegs : regs'[r] = {}]_vars

\* the fields of the stream pcie_audio_pcm_open assigns
OpenFields == {"substream", "last_interrupt", "interrupts", "errors", "latency"}

\* C25: no step of the lifecycle or of the handler decreases a device-wide
\* statistics counter; open leaves the statistics alone, and of the streams
\* it changes only the session binding and the interrupt, error and latency
\* fields of its own direction.
C25_StatisticsNeverDecrease ==
    [][/\ \A k \in DOMAIN stats : stats'[k] >= stats[k]
       /\ \A d \in Dirs :
            Open(d) =>
               /\ stats' = stats
               /\ \A e \in Dirs \ {d} : stream'[e] = stream[e]
               /\ \A f \in DOMAIN stream[d] \ OpenFields : stream'[d][f] = stream[d][f]
               /\ stream'[d].interrupts = 0 /\ stream'[d].errors = 0
               /\ stream'[d].latency = 0]_vars

\* playback was opened again after an underrun had been counted
C25_Witness ==
    /\ stats.pb_underruns > 0
    /\ IsOpen("pb")
    /\ stream["pb"].interrupts = 0
    /\ stream["pb"].errors = 0

\* the step leaves the stream state and the enable, IRQ-enable and status
\* registers of the direction other than d as they were
OtherDirectionUntouched(d) ==
    \A e \in Dirs \ {d} :
        /\ stream'[e] = stream[e]
        /\ regs'[EnableReg(e)] = regs[EnableReg(e)]
        /\ regs'[IrqEnReg(e)] = regs[IrqEnReg(e)]
        /\ regs'[StatusReg(e)] = regs[StatusReg(e)]

\* the status bits pending are all in the status register of direction d
OnlyStatusOf(d) ==
    /\ regs[StatusReg(d)] # {}
    /\ \A r \in StatusRegs \ {StatusReg(d)} : regs[r] = {}

\* a callback of direction d
CallbackOf(d) ==
    \/ Open(d)
    \/ Prepare(d)
    \/ \E cmd \in {"START", "STOP"} : Trigger(d, cmd)
    \/ Close(d)

\* C26: open, prepare, start, stop and close of one direction, and a handler
\* run for status bits of that direction only, leave the other direction's
\* stream state and its enable, IRQ-enable and status registers unchanged.
C26_DirectionsAreIndependent ==
    [][\A d \in Dirs :
          (CallbackOf(d) \/ (Interrupt /\ OnlyStatusOf(d)))
              => OtherDirectionUntouched(d)]_vars

\* the 0-based indices of the descriptors of ring desc that carry the INT flag
RingIntIndices(desc) ==
    {i \in 0..(Len(desc) - 1) : DESC_FLAG_INT \subseteq desc[i + 1].flags}

OddIndices(n) == {i \in 0..(n - 1) : i % 2 = 1}

\* C27: in every ring built, and in the ring the builder makes for any count
\* of descriptors, exactly the descriptors at odd 0-based indices carry the
\* INT flag; the WRAP descriptor is no exception.
C27_IntFlagOnExactlyOddIndices ==
    /\ \A d \in Dirs :
          HasRing(d) => RingIntIndices(stream[d].desc) = OddIndices(Len(stream[d].desc))
    /\ \A n \in MIN_PERIODS..DMA_DESC_COUNT :
          RingIntIndices(InitRing(BufAddr("pb"), MIN_PERIOD_SIZE, DescAddr(1), n))
              = OddIndices(n)

\* a ring was built whose last descriptor, at an odd index, carries both WRAP
\* and INT
C27_Witness ==
    /\ HasRing("pb")
    /\ (Len(stream["pb"].desc) - 1) % 2 = 1
    /\ stream["pb"].desc[Len(stream["pb"].desc)].flags = DESC_FLAG_INT \cup DESC_FLAG_WRAP

\* C28: every descriptor of a built ring addresses a segment inside the
\* stream's DMA buffer: buffer base <= address and address + length <=
\* buffer base + buffer size.
C28_SegmentsInsideBuffer ==
    \A d \in Dirs :
        HasRing(d) =>
            \A i \in 1..Len(stream[d].desc) :
                /\ BufAddr(d) <= stream[d].desc[i].address
                /\ stream[d].desc[i].address + stream[d].desc[i].length
                      <= BufAddr(d) + stream[d].buffer_size

\* the step performs the handler's capture handling
CaptureHandled ==
    \/ stream'["cap"] # stream["cap"]
    \/ notif'["cap"] # notif["cap"]
    \/ stats'.cap_overruns # stats.cap_overruns

\* the step performs the handler's DMA-fault recovery
FaultRecovered == stats'.dma_errors # stats.dma_errors

\* C29: a handler run performs capture handling only when the
\* capture-overrun status register is non-zero and DMA-fault recovery only
\* when the DMA-error status register is non-zero, whatever the playback
\* status register holds.
C29_StatusFieldsAreIsolated ==
    [][Interrupt =>
          /\ CaptureHandled => regs["REG_STATUS_CAP_OVERRUN"] # {}
          /\ FaultRecovered => regs["REG_STATUS_DMA_ERROR"] # {}]_vars

\* the part of the handler's combined status word tested for register r
StatusField(r, status) ==
    CASE r = "REG_STATUS_PB_UNDERRUN" -> MaskLow(status)
      [] r = "REG_STATUS_CAP_OVERRUN" -> MaskMid(status)
      [] OTHER -> MaskHigh(status)

\* C30: no status event is lost: a write of the handler clears bits of a
\* status register only if the handler acted on that register in this run,
\* that is, only if the register's field of the status word it read was
\* non-zero; a bit raised after the read stays set.
C30_NoStatusEventLost ==
    [][IrqWrite =>
          \A r \in StatusRegs :
              regs'[r] # regs[r] => StatusField(r, irq.status) # {}]_vars

====
